---- MODULE Spec2Model ----
(***************************************************************************)
(* Plant-Cam (src/main.rs): one process invocation loads config.toml,      *)
(* enumerates the capture devices, selects one, opens it, grabs one frame, *)
(* crops it, saves it as a time-stamped JPEG and uploads it to a bucket.   *)
(* Every fallible call is followed by expect/unwrap/panic!, so the first   *)
(* failure ends the process.  The file system, the bucket and the clock    *)
(* outlive a process; an external scheduler may start the program again.   *)
(*                                                                         *)
(* Strings are sequences of one-character strings; Option<T> is the empty  *)
(* sequence (None) or a one-element sequence (Some).                       *)
(***************************************************************************)
EXTENDS Integers, Sequences, FiniteSets, TLC

(* ------------------------------ bounds -------------------------------- *)
\* process invocations modelled in one behaviour
MaxRuns == 2
\* clock advances modelled in one behaviour
MaxTicks == 2
\* seconds the clock advances per Tick
TickSeconds == 30
\* longest configured camera_id drawn for the selection specification
MaxIdLen == 2
\* most devices enumerated in the selection specification
MaxCams == 2

(* ------------------------------ strings ------------------------------- *)
None == << >>
Some(v) == << v >>
Get(o) == o[1]

EmptyMap == [x \in {} |-> x]
MapPut(m, k, v) == [x \in (DOMAIN m) \cup {k} |-> IF x = k THEN v ELSE m[x]]

SeqsUpTo(S, n) == UNION { [1..k -> S] : k \in 0..n }

Sep == "/"
Digits == << "0", "1", "2", "3", "4", "5", "6", "7", "8", "9" >>

\* char::to_lowercase on the letters of the modelled alphabet
LowerChar(c) ==
    CASE c = "A" -> "a"
      [] c = "B" -> "b"
      [] c = "C" -> "c"
      [] OTHER -> c

\* variant: a comparison that keeps letter case
ToLowercaseIdentity(s) == s
\* str::to_lowercase
ToLowercase(s) == [i \in 1..Len(s) |-> LowerChar(s[i])]

\* variant: an empty needle is found nowhere
ContainsNonEmpty(hay, needle) ==
    /\ Len(needle) > 0
    /\ \E k \in 0..(Len(hay) - Len(needle)) :
           \A i \in 1..Len(needle) : hay[k + i] = needle[i]
\* str::contains(&str): exact substring at some offset
Contains(hay, needle) ==
    \E k \in 0..(Len(hay) - Len(needle)) :
        \A i \in 1..Len(needle) : hay[k + i] = needle[i]

(* ------------------------------- paths -------------------------------- *)
\* positions of the separator in a path
SepPositions(p) == { i \in 1..Len(p) : p[i] = Sep }
LastSep(p) == IF SepPositions(p) = {} THEN 0
              ELSE CHOOSE i \in SepPositions(p) : \A j \in SepPositions(p) : j <= i

\* PathBuf::push: an absolute component replaces the path, otherwise it is
\* appended, with a separator unless the path is empty or ends with one
PathPush(path, comp) ==
    IF Len(comp) > 0 /\ comp[1] = Sep THEN comp
    ELSE IF Len(path) > 0 /\ path[Len(path)] # Sep THEN path \o << Sep >> \o comp
    ELSE path \o comp

\* Path::file_name of a path whose last component is a normal one (every
\* output path ends with "<digits>.jpg"): the text after the last separator
FileName(p) == SubSeq(p, LastSep(p) + 1, Len(p))

\* Path::parent of such a path: the text before the last component, without
\* the separators that end it (the root keeps its separator)
Parent(p) ==
    LET cut == LastSep(p)
        F[i \in 0..Len(p)] ==
            IF i = 0 THEN 0
            ELSE IF p[i] = Sep THEN F[i - 1] ELSE i
        end == F[cut]
    IN
    IF cut = 0 THEN << >>
    ELSE IF end = 0 THEN << Sep >>
    ELSE SubSeq(p, 1, end)

(* ------------------------------- clock -------------------------------- *)
\* The clock counts seconds of local time from 2024-01-01 00:00:00 and stays
\* within January 2024.
Pad2(n) == << Digits[(n \div 10) + 1], Digits[(n % 10) + 1] >>

\* variant: the stamp carries the seconds too
FormatTimeSeconds(t) ==
    << "2", "0", "2", "4", "0", "1" >> \o Pad2((t \div 86400) + 1) \o << "_" >>
        \o Pad2((t \div 3600) % 24) \o Pad2((t \div 60) % 60) \o Pad2(t % 60)
\* Local::now().format("%Y%m%d_%H%M")
FormatTime(t) ==
    << "2", "0", "2", "4", "0", "1" >> \o Pad2((t \div 86400) + 1) \o << "_" >>
        \o Pad2((t \div 3600) % 24) \o Pad2((t \div 60) % 60)

JpgExt == << ".", "j", "p", "g" >>
PicturesDir == << "p", "i", "c", "t", "u", "r", "e", "s", "/" >>

(* --------------------------- configuration ---------------------------- *)
\* Config::default, with the account and credential strings left out of
\* the record (get_bucket only passes them on)
DefaultConfig ==
    [ camera_id         |-> << >>,
      camera_width      |-> 640,
      camera_height     |-> 480,
      camera_frame_rate |-> 30,
      output_dir        |-> << "p", "i", "c", "t", "u", "r", "e", "s" >>,
      output_prefix     |-> << >>,
      crop_x            |-> 0,
      crop_y            |-> 0,
      crop_width        |-> 640,
      crop_height       |-> 480,
      no_default_camera |-> TRUE,
      r2_project_prefix |-> << "p", "l", "a", "n", "t", "-", "c", "a", "m", "/" >> ]

With(c, f, v) == [c EXCEPT ![f] = v]

CameraInfo(i, m) == [index |-> i, misc |-> m]

(* ------------------------------- state -------------------------------- *)
VARIABLES
    \* the world outside the process
    config_file,        \* content of config.toml: Some(record), or None when it does not parse
    devices,            \* what nokhwa::query_devices answers: Some(list), or None for an error
    now,                \* the local clock, in seconds
    fs,                 \* local files: path -> content
    dirs,               \* directories created so far
    remote,             \* the bucket: key -> object
    runs,               \* number of the current process invocation
    ticks,              \* clock advances so far
    builds,             \* every get_output_path call so far: its inputs and its result
    \* the process
    pc,
    exit_code,
    calls,              \* the calls of main made so far in this invocation
    config,
    cameras,
    camera_index,
    camera,
    frame,
    image,
    output_path,
    image_file_buffer,
    bucket

world == << config_file, devices, now, fs, dirs, remote, runs, ticks, builds >>
locals == << config, cameras, camera_index, camera, frame, image, output_path,
             image_file_buffer, bucket >>
vars == << world, pc, exit_code, calls, locals >>

\* the calls of main, in program order
CallOrder ==
    << "get_config", "get_cameras", "get_camera_index", "get_camera", "open_stream",
       "frame", "crop_imm", "get_output_path", "create_dir_all", "save_with_format",
       "read_to_end", "get_bucket", "put_object" >>

(* ------------------------- the pure functions ------------------------- *)
\* the test of get_camera_index's loop body
Matches(cfg, cam) == Contains(ToLowercase(cam.misc), ToLowercase(cfg.camera_id))

\* the position at which the loop of get_camera_index returns, 0 if it runs out
FirstMatch(cfg, cams) ==
    LET hits == { i \in 1..Len(cams) : Matches(cfg, cams[i]) }
    IN  IF hits = {} THEN 0 ELSE CHOOSE i \in hits : \A j \in hits : i <= j

\* crop_dimms of image::imageops, which crop_imm applies to its rectangle
Min(a, b) == IF a <= b THEN a ELSE b
CropDimms(f, x, y, w, h) ==
    LET cx == Min(x, f.width)
        cy == Min(y, f.height)
    IN  [ x |-> cx, y |-> cy,
          width |-> Min(w, f.width - cx), height |-> Min(h, f.height - cy) ]

\* the file name get_output_path builds
OutputFilename(cfg, t) ==
    IF cfg.output_prefix # << >>
    THEN cfg.output_prefix \o << "-" >> \o FormatTime(t) \o JpgExt
    ELSE FormatTime(t) \o JpgExt

OutputPath(cfg, t) == PathPush(cfg.output_dir, OutputFilename(cfg, t))

\* variant: the key carries the whole local path
ObjectKeyFromPath(cfg, path) == cfg.r2_project_prefix \o PicturesDir \o path
\* the key main passes to put_object_with_content_type
ObjectKey(cfg, path) == cfg.r2_project_prefix \o PicturesDir \o FileName(path)

\* ImageBuffer::save_with_format(.., ImageFormat::Jpeg): the bytes of the file
Jpeg(img) == [format |-> "jpeg", pixels |-> img]
Truncated(img) == [format |-> "truncated", pixels |-> img]

(* ------------------------------ control ------------------------------- *)
\* a call of main returns and main goes on
Goes(call, next) ==
    /\ calls' = Append(calls, call)
    /\ pc' = next
    /\ exit_code' = exit_code

\* variant: a failure that ends the process with exit code 0
PanicsExitZero(call) ==
    /\ calls' = Append(calls, call)
    /\ pc' = "Failed"
    /\ exit_code' = Some(0)
\* expect / unwrap / panic!: the process ends with Rust's panic exit code
Panics(call) ==
    /\ calls' = Append(calls, call)
    /\ pc' = "Failed"
    /\ exit_code' = Some(101)

(* ------------------------------ actions ------------------------------- *)
\* let config = get_config();
get_config ==
    /\ pc = "Start"
    /\ \/ /\ config_file # None
          /\ config' = config_file
          /\ Goes("get_config", "ConfigLoaded")
       \/ /\ config_file = None
          /\ config' = config
          /\ Panics("get_config")
    /\ UNCHANGED << world, cameras, camera_index, camera, frame, image, output_path,
                    image_file_buffer, bucket >>

\* let cameras = get_cameras();
get_cameras ==
    /\ pc = "ConfigLoaded"
    /\ \/ /\ devices # None
          /\ cameras' = devices
          /\ Goes("get_cameras", "Enumerated")
       \/ /\ devices = None
          /\ cameras' = cameras
          /\ Panics("get_cameras")
    /\ UNCHANGED << world, config, camera_index, camera, frame, image, output_path,
                    image_file_buffer, bucket >>

\* variant: no_default_camera is ignored and the fallback always taken
get_camera_index_lenient ==
    /\ pc = "Enumerated"
    /\ LET m == FirstMatch(Get(config), Get(cameras))
       IN  /\ camera_index' = IF m # 0 THEN Some(Get(cameras)[m].index) ELSE Some(0)
           /\ Goes("get_camera_index", "DeviceSelected")
    /\ UNCHANGED << world, config, cameras, camera, frame, image, output_path,
                    image_file_buffer, bucket >>
\* variant: no match is always fatal
get_camera_index_strict ==
    /\ pc = "Enumerated"
    /\ LET m == FirstMatch(Get(config), Get(cameras))
       IN  \/ /\ m # 0
              /\ camera_index' = Some(Get(cameras)[m].index)
              /\ Goes("get_camera_index", "DeviceSelected")
           \/ /\ m = 0
              /\ camera_index' = camera_index
              /\ Panics("get_camera_index")
    /\ UNCHANGED << world, config, cameras, camera, frame, image, output_path,
                    image_file_buffer, bucket >>
\* let camera_index = get_camera_index(&config, &cameras);
get_camera_index ==
    /\ pc = "Enumerated"
    /\ LET m == FirstMatch(Get(config), Get(cameras))
       IN  \/ /\ m # 0
              /\ camera_index' = Some(Get(cameras)[m].index)
              /\ Goes("get_camera_index", "DeviceSelected")
           \/ /\ m = 0
              /\ Get(config).no_default_camera
              /\ camera_index' = camera_index
              /\ Panics("get_camera_index")
           \/ /\ m = 0
              /\ ~Get(config).no_default_camera
              /\ camera_index' = Some(0)
              /\ Goes("get_camera_index", "DeviceSelected")
    /\ UNCHANGED << world, config, cameras, camera, frame, image, output_path,
                    image_file_buffer, bucket >>

\* let mut camera = get_camera(camera_index, &config);
\* Camera::new fails for an index no attached device has, and may fail for
\* one that is attached (busy, format not supported)
get_camera ==
    /\ pc = "DeviceSelected"
    /\ \/ /\ \E i \in 1..Len(Get(devices)) : Get(devices)[i].index = Get(camera_index)
          /\ camera' = Some([ index     |-> Get(camera_index),
                              width     |-> Get(config).camera_width,
                              height    |-> Get(config).camera_height,
                              streaming |-> FALSE ])
          /\ Goes("get_camera", "CameraReady")
       \/ /\ camera' = camera
          /\ Panics("get_camera")
    /\ UNCHANGED << world, config, cameras, camera_index, frame, image, output_path,
                    image_file_buffer, bucket >>

\* camera.open_stream().expect("Failed to open stream");
open_stream ==
    /\ pc = "CameraReady"
    /\ \/ /\ camera' = Some([Get(camera) EXCEPT !.streaming = TRUE])
          /\ Goes("open_stream", "StreamOpened")
       \/ /\ camera' = camera
          /\ Panics("open_stream")
    /\ UNCHANGED << world, config, cameras, camera_index, frame, image, output_path,
                    image_file_buffer, bucket >>

\* let frame = camera.frame().expect("Failed to get frame");
\* the frame has the resolution of the format the camera was created with
get_frame ==
    /\ pc = "StreamOpened"
    /\ \/ /\ frame' = Some([ id |-> runs, width |-> Get(camera).width,
                             height |-> Get(camera).height ])
          /\ Goes("frame", "FrameCaptured")
       \/ /\ frame' = frame
          /\ Panics("frame")
    /\ UNCHANGED << world, config, cameras, camera_index, camera, image, output_path,
                    image_file_buffer, bucket >>

\* let image = crop_imm(&frame, crop_x, crop_y, crop_width, crop_height).to_image();
crop_imm ==
    /\ pc = "FrameCaptured"
    /\ LET c == Get(config)
           r == CropDimms(Get(frame), c.crop_x, c.crop_y, c.crop_width, c.crop_height)
       IN  image' = Some([ frame |-> Get(frame).id, x |-> r.x, y |-> r.y,
                           width |-> r.width, height |-> r.height ])
    /\ Goes("crop_imm", "Cropped")
    /\ UNCHANGED << world, config, cameras, camera_index, camera, frame, output_path,
                    image_file_buffer, bucket >>

\* let output_path = get_output_path(&config);
get_output_path ==
    /\ pc = "Cropped"
    /\ output_path' = Some(OutputPath(Get(config), now))
    /\ builds' = Append(builds, [ time          |-> now,
                                  output_dir    |-> Get(config).output_dir,
                                  output_prefix |-> Get(config).output_prefix,
                                  path          |-> OutputPath(Get(config), now) ])
    /\ Goes("get_output_path", "PathBuilt")
    /\ UNCHANGED << config_file, devices, now, fs, dirs, remote, runs, ticks >>
    /\ UNCHANGED << config, cameras, camera_index, camera, frame, image,
                    image_file_buffer, bucket >>

\* if let Some(parent) = output_path.parent() { fs::create_dir_all(parent).expect(..) }
\* (an output path has a last component, so parent() is Some)
create_dir_all ==
    /\ pc = "PathBuilt"
    /\ \/ /\ dirs' = dirs \cup { Parent(Get(output_path)) }
          /\ Goes("create_dir_all", "DirReady")
       \/ /\ dirs' = dirs
          /\ Panics("create_dir_all")
    /\ UNCHANGED << config_file, devices, now, fs, remote, runs, ticks, builds >>
    /\ UNCHANGED locals

\* variant: a file that could not be created does not stop main
save_with_format_goes_on ==
    /\ pc = "DirReady"
    /\ \/ /\ fs' = MapPut(fs, Get(output_path), Jpeg(Get(image)))
          /\ Goes("save_with_format", "Persisted")
       \/ /\ fs' = fs
          /\ Goes("save_with_format", "Persisted")
       \/ /\ fs' = MapPut(fs, Get(output_path), Truncated(Get(image)))
          /\ Panics("save_with_format")
    /\ UNCHANGED << config_file, devices, now, dirs, remote, runs, ticks, builds >>
    /\ UNCHANGED locals
\* image.save_with_format(&output_path, ImageFormat::Jpeg).expect(..)
\* creates or truncates the file and writes it; a failure leaves no change
\* (the file could not be created) or a file cut short
save_with_format ==
    /\ pc = "DirReady"
    /\ \/ /\ fs' = MapPut(fs, Get(output_path), Jpeg(Get(image)))
          /\ Goes("save_with_format", "Persisted")
       \/ /\ fs' = fs
          /\ Panics("save_with_format")
       \/ /\ fs' = MapPut(fs, Get(output_path), Truncated(Get(image)))
          /\ Panics("save_with_format")
    /\ UNCHANGED << config_file, devices, now, dirs, remote, runs, ticks, builds >>
    /\ UNCHANGED locals

\* File::open(&output_path).expect(..); image_file.read_to_end(..).expect(..)
read_to_end ==
    /\ pc = "Persisted"
    /\ \/ /\ Get(output_path) \in DOMAIN fs
          /\ image_file_buffer' = Some(fs[Get(output_path)])
          /\ Goes("read_to_end", "FileRead")
       \/ /\ image_file_buffer' = image_file_buffer
          /\ Panics("read_to_end")
    /\ UNCHANGED << world, config, cameras, camera_index, camera, frame, image,
                    output_path, bucket >>

\* let bucket = get_bucket(&config);
get_bucket ==
    /\ pc = "FileRead"
    /\ \/ /\ bucket' = Some("r2")
          /\ Goes("get_bucket", "BucketReady")
       \/ /\ bucket' = bucket
          /\ Panics("get_bucket")
    /\ UNCHANGED << world, config, cameras, camera_index, camera, frame, image,
                    output_path, image_file_buffer >>

\* variant: a failed upload removes the local file
put_object_rolls_back ==
    /\ pc = "BucketReady"
    /\ \/ /\ remote' = MapPut(remote, ObjectKey(Get(config), Get(output_path)),
                              [ body         |-> Get(image_file_buffer),
                                content_type |-> "image/jpeg" ])
          /\ fs' = fs
          /\ Goes("put_object", "Published")
       \/ /\ remote' = remote
          /\ fs' = [p \in (DOMAIN fs) \ { Get(output_path) } |-> fs[p]]
          /\ Panics("put_object")
    /\ UNCHANGED << config_file, devices, now, dirs, runs, ticks, builds >>
    /\ UNCHANGED locals
\* bucket.put_object_with_content_type(key, &image_file_buffer, "image/jpeg")
\*     .await.expect("Failed to upload picture");
put_object ==
    /\ pc = "BucketReady"
    /\ \/ /\ remote' = MapPut(remote, ObjectKey(Get(config), Get(output_path)),
                              [ body         |-> Get(image_file_buffer),
                                content_type |-> "image/jpeg" ])
          /\ Goes("put_object", "Published")
       \/ /\ remote' = remote
          /\ Panics("put_object")
    /\ UNCHANGED << config_file, devices, now, fs, dirs, runs, ticks, builds >>
    /\ UNCHANGED locals

\* main returns: the process ends with exit code 0
main_returns ==
    /\ pc = "Published"
    /\ pc' = "Done"
    /\ exit_code' = Some(0)
    /\ UNCHANGED << world, calls, locals >>

\* the external scheduler starts the program again
main_starts ==
    /\ pc \in { "Done", "Failed" }
    /\ runs < MaxRuns
    /\ runs' = runs + 1
    /\ pc' = "Start"
    /\ exit_code' = None
    /\ calls' = << >>
    /\ config' = None /\ cameras' = None /\ camera_index' = None /\ camera' = None
    /\ frame' = None /\ image' = None /\ output_path' = None
    /\ image_file_buffer' = None /\ bucket' = None
    /\ UNCHANGED << config_file, devices, now, fs, dirs, remote, ticks, builds >>

\* time passes
Tick ==
    /\ ticks < MaxTicks
    /\ ticks' = ticks + 1
    /\ now' = now + TickSeconds
    /\ UNCHANGED << config_file, devices, fs, dirs, remote, runs, builds >>
    /\ UNCHANGED << pc, exit_code, calls, locals >>

\* one step of the process
Step ==
    \/ get_config \/ get_cameras \/ get_camera_index \/ get_camera \/ open_stream
    \/ get_frame \/ crop_imm \/ get_output_path \/ create_dir_all \/ save_with_format
    \/ read_to_end \/ get_bucket \/ put_object \/ main_returns

Next == Step \/ main_starts \/ Tick

(* --------------------------- initial states --------------------------- *)
\* a process at its start, in a world with the given config file, devices
\* and clock, an empty output directory tree and an empty bucket
InitWith(cf, dv, t) ==
    /\ config_file = cf /\ devices = dv /\ now = t
    /\ fs = EmptyMap /\ dirs = {} /\ remote = EmptyMap
    /\ runs = 1 /\ ticks = 0 /\ builds = << >>
    /\ pc = "Start" /\ exit_code = None /\ calls = << >>
    /\ config = None /\ cameras = None /\ camera_index = None /\ camera = None
    /\ frame = None /\ image = None /\ output_path = None
    /\ image_file_buffer = None /\ bucket = None

\* 12:34:05 on January 1st and 23:59:40 on January 2nd
StartTimes == { 12 * 3600 + 34 * 60 + 5, 86400 + 23 * 3600 + 59 * 60 + 40 }

\* config files of the pipeline specification: the defaults with another
\* camera_id and strictness, another crop rectangle, another prefix
PipelineConfigs ==
    { With(With(DefaultConfig, "camera_id", id), "no_default_camera", s) :
          id \in { << >>, << "u", "S", "b" >>, << "x" >> }, s \in BOOLEAN }
    \cup
    { [DefaultConfig EXCEPT !.crop_x = r[1], !.crop_y = r[2],
                            !.crop_width = r[3], !.crop_height = r[4]] :
          r \in { << 100, 100, 700, 700 >>, << 100, 100, 200, 200 >>,
                  << 0, 0, 641, 480 >>, << 640, 480, 1, 1 >> } }
    \cup
    { With(DefaultConfig, "output_prefix", << "c", "a", "m", "1" >>) }

PipelineDevices ==
    { << >>,
      << CameraInfo(0, << "U", "s", "B" >>) >>,
      << CameraInfo(1, << "i", "r" >>), CameraInfo(2, << "U", "s", "B" >>) >> }

Init ==
    \E cf \in { Some(c) : c \in PipelineConfigs } \cup { None },
       dv \in { Some(d) : d \in PipelineDevices } \cup { None },
       t \in { 12 * 3600 + 34 * 60 + 5 } :
        InitWith(cf, dv, t)

Spec == Init /\ [][Next]_vars

\* the process is never stopped from outside and every call of main returns
FairSpec == Spec /\ WF_vars(Step)

(* ---------------- device selection over many inputs ------------------- *)
IdAlphabet == { "a", "A", "b", "B" }

\* metadata strings of the enumerated devices
SelMiscs ==
    { << >>, << "A" >>, << "a", "B" >>, << "B", "a" >>, << "b", "A", "b" >> }

\* enumerations of up to MaxCams devices; the indices count up from 0 or 1
SelDevices ==
    { [i \in 1..Len(ms) |-> CameraInfo(base + i - 1, ms[i])] :
          ms \in SeqsUpTo(SelMiscs, MaxCams), base \in { 0, 1 } }

SelInit ==
    \E id \in SeqsUpTo(IdAlphabet, MaxIdLen), s \in BOOLEAN, dv \in SelDevices :
        InitWith(Some(With(With(DefaultConfig, "camera_id", id), "no_default_camera", s)),
                 Some(dv), 12 * 3600 + 34 * 60 + 5)

SelNext == get_config \/ get_cameras \/ get_camera_index

SelSpec == SelInit /\ [][SelNext]_vars

(* ------------- output path and object key over many inputs ------------ *)
PathDirs ==
    { << >>, << "p" >>, << "p", "/" >>, << "/", "p" >>, << "a", "/", "b" >> }
PathPrefixes ==
    { << >>, << "c" >>, << "a", "/", "c" >>, << "/", "c" >> }
PathProjectPrefixes ==
    { << >>, << "r", "/" >> }

PathInit ==
    \E d \in PathDirs, p \in PathPrefixes, r \in PathProjectPrefixes, t \in StartTimes :
        InitWith(Some([DefaultConfig EXCEPT !.output_dir = d, !.output_prefix = p,
                                            !.r2_project_prefix = r]),
                 Some(<< CameraInfo(0, << "U", "s", "B" >>) >>), t)

PathSpec == PathInit /\ [][Next]_vars

(* ======================= properties of the program ==================== *)
Range(q) == { q[i] : i \in DOMAIN q }
Last(q) == q[Len(q)]
IsPrefix(q, r) == Len(q) <= Len(r) /\ \A i \in 1..Len(q) : q[i] = r[i]

\* the call was made in this invocation
Called(call) == call \in Range(calls)
\* the call was made in this invocation and returned to main
Returned(call) == Called(call) /\ ~(pc = "Failed" /\ Last(calls) = call)

\* two characters are the same letter, whatever their case
SameLetter(c, d) ==
    \/ c = d
    \/ { c, d } \in { { "a", "A" }, { "b", "B" }, { "c", "C" } }

\* needle occurs in hay when letter case is ignored
OccursIgnoringCase(needle, hay) ==
    \E k \in 0..(Len(hay) - Len(needle)) :
        \A i \in 1..Len(needle) : SameLetter(hay[k + i], needle[i])

\* the positions of the enumerated devices the configured camera_id matches
MatchingDevices ==
    { i \in 1..Len(Get(cameras)) :
          OccursIgnoringCase(Get(config).camera_id, Get(cameras)[i].misc) }

\* files and objects that hold pixels of the frame of this invocation
FilesOfThisRun == { p \in DOMAIN fs : fs[p].pixels.frame = runs }
ObjectsOfThisRun == { k \in DOMAIN remote : remote[k].body.pixels.frame = runs }

\* C1: once get_camera_index has been called with some device matching the
\* configured camera_id as a case-insensitive substring, it has returned, and
\* the index it returned is that of the first such device in enumeration
\* order; when exactly one device matches, it is that device's index.
C1_FirstMatchSelected ==
    (Called("get_camera_index") /\ MatchingDevices # {}) =>
        /\ pc = "DeviceSelected"
        /\ \E i \in MatchingDevices :
              /\ \A j \in MatchingDevices : i <= j
              /\ camera_index = Some(Get(cameras)[i].index)
        /\ \A i \in MatchingDevices :
              MatchingDevices = { i } => camera_index = Some(Get(cameras)[i].index)

\* exactly one device matches, it is not the first one enumerated, id and
\* metadata differ in letter case, and its index was returned
C1_Witness ==
    /\ Called("get_camera_index")
    /\ MatchingDevices = { 2 }
    /\ Len(Get(config).camera_id) = 2
    /\ ~Contains(Get(cameras)[2].misc, Get(config).camera_id)
    /\ camera_index = Some(2)

\* C10: with an empty camera_id and at least one enumerated device,
\* get_camera_index returns the index of the first enumerated device whether
\* strict mode is on or off; with an empty camera_id the panic of strict mode
\* and the fallback happen only for an empty enumeration.
C10_EmptyIdSelectsFirstDevice ==
    (Called("get_camera_index") /\ Get(config).camera_id = << >>) =>
        IF Len(Get(cameras)) > 0
        THEN /\ pc = "DeviceSelected"
             /\ camera_index = Some(Get(cameras)[1].index)
        ELSE IF Get(config).no_default_camera
        THEN pc = "Failed" /\ camera_index = None
        ELSE pc = "DeviceSelected" /\ camera_index = Some(0)

\* empty id, strict mode on, two devices whose metadata is empty too: the
\* first one's index, 1, was returned
C10_Witness ==
    /\ Called("get_camera_index")
    /\ Get(config).camera_id = << >>
    /\ Get(config).no_default_camera
    /\ Len(Get(cameras)) = 2
    /\ Get(cameras)[1].misc = << >>
    /\ camera_index = Some(1)

\* C2: once get_camera_index has been called with no device matching and
\* strict mode on, the process has failed in that call with a non-zero exit
\* code: no device was opened, no frame captured, no path built, no file
\* written and no object uploaded by this invocation.
C2_StrictNoMatchStops ==
    (/\ Called("get_camera_index")
     /\ MatchingDevices = {}
     /\ Get(config).no_default_camera) =>
        /\ pc = "Failed"
        /\ exit_code = Some(101)
        /\ Last(calls) = "get_camera_index"
        /\ camera_index = None /\ camera = None /\ frame = None /\ image = None
        /\ output_path = None /\ image_file_buffer = None /\ bucket = None
        /\ FilesOfThisRun = {}
        /\ ObjectsOfThisRun = {}

\* strict mode, devices enumerated, none matches: failed
C2_Witness ==
    /\ Called("get_camera_index")
    /\ Len(Get(cameras)) = 2
    /\ MatchingDevices = {}
    /\ Get(config).no_default_camera
    /\ pc = "Failed"

\* C3: once get_camera_index has been called with no device matching and
\* strict mode off, it has returned index 0 and main has gone on to
\* get_camera; for an empty enumeration the process still gets past
\* selection and fails only in get_camera.
C3_LenientNoMatchFallsBack ==
    (/\ Called("get_camera_index")
     /\ MatchingDevices = {}
     /\ ~Get(config).no_default_camera) =>
        /\ Returned("get_camera_index")
        /\ camera_index = Some(0)
        /\ Last(calls) = "get_camera_index" => (pc = "DeviceSelected" /\ ENABLED get_camera)
        /\ (Get(cameras) = << >> /\ pc = "Failed") => Last(calls) = "get_camera"

\* empty enumeration, strict mode off: selection returned 0 and the
\* process failed when it opened the device
C3_Witness ==
    /\ Called("get_camera")
    /\ Get(cameras) = << >>
    /\ ~Get(config).no_default_camera
    /\ camera_index = Some(0)
    /\ pc = "Failed"

\* the configured crop rectangle lies inside the captured frame
CropFits ==
    /\ Get(config).crop_x + Get(config).crop_width <= Get(frame).width
    /\ Get(config).crop_y + Get(config).crop_height <= Get(frame).height

\* C4: with a crop rectangle that does not fit inside the captured frame the
\* process never gets to Persisted or beyond, writes no file and uploads
\* nothing.
C4_OversizedCropNeverPersists ==
    (frame # None /\ ~CropFits) =>
        /\ pc \notin { "Persisted", "FileRead", "BucketReady", "Published", "Done" }
        /\ FilesOfThisRun = {}
        /\ ObjectsOfThisRun = {}

\* C5: when put_object has failed, the process has ended with a non-zero
\* exit code, and the file this invocation saved is still there with the
\* content that was saved and read back; nothing was uploaded.
C5_UploadFailureKeepsFile ==
    (pc = "Failed" /\ Last(calls) = "put_object") =>
        /\ exit_code = Some(101)
        /\ Get(output_path) \in DOMAIN fs
        /\ fs[Get(output_path)] = Jpeg(Get(image))
        /\ fs[Get(output_path)] = Get(image_file_buffer)
        /\ ObjectsOfThisRun = {}

\* the upload failed after the file was saved
C5_Witness ==
    /\ pc = "Failed"
    /\ Last(calls) = "put_object"
    /\ FilesOfThisRun # {}

\* what each successful call leaves behind
C6_Effects ==
    /\ config # None <=> Returned("get_config")
    /\ cameras # None <=> Returned("get_cameras")
    /\ camera_index # None <=> Returned("get_camera_index")
    /\ camera # None <=> Returned("get_camera")
    /\ (camera # None /\ Get(camera).streaming) <=> Returned("open_stream")
    /\ frame # None <=> Returned("frame")
    /\ image # None <=> Returned("crop_imm")
    /\ output_path # None <=> Returned("get_output_path")
    /\ Returned("create_dir_all") => Parent(Get(output_path)) \in dirs
    /\ Returned("save_with_format") =>
           (Get(output_path) \in DOMAIN fs /\ fs[Get(output_path)] = Jpeg(Get(image)))
    /\ FilesOfThisRun # {} => (Called("save_with_format") /\ Returned("crop_imm"))
    /\ image_file_buffer # None <=> Returned("read_to_end")
    /\ bucket # None <=> Returned("get_bucket")
    /\ ObjectsOfThisRun # {} <=> Returned("put_object")
    /\ ObjectsOfThisRun # {} => Returned("save_with_format")

\* C6: the calls of an invocation are an initial part of main's calls in
\* program order (none skipped, repeated or retried), each stage's result
\* exists exactly when its call returned, so a file is written only after
\* capture and crop and an object uploaded only after the file was written;
\* and a failed process makes no further call and changes nothing.
C6_StagesInOrder ==
    /\ [](/\ IsPrefix(calls, CallOrder)
          /\ pc = "Failed" => calls # << >>
          /\ pc = "Done" => calls = CallOrder
          /\ C6_Effects)
    /\ [][pc = "Failed" =>
            \/ /\ pc' = "Failed"
               /\ UNCHANGED << calls, locals, fs, dirs, remote, exit_code >>
            \/ pc' = "Start" /\ runs' = runs + 1]_vars

\* a second invocation failed while saving, after a first one that uploaded
C6_Witness ==
    /\ runs = 2
    /\ pc = "Failed"
    /\ Last(calls) = "save_with_format"
    /\ remote # EmptyMap

\* C7: a process that has not ended can take its next step; it ends only as
\* Done, after every call of main returned, with exit code 0, or as Failed
\* with a non-zero exit code; and every invocation does end.
C7_EndsDoneOrFailed ==
    /\ [](/\ pc \notin { "Done", "Failed" } => (exit_code = None /\ ENABLED Step)
          /\ pc \in { "Done", "Failed" } => ~ENABLED Step
          /\ pc = "Done" => (exit_code = Some(0) /\ calls = CallOrder
                                 /\ \A c \in Range(CallOrder) : Returned(c))
          /\ pc = "Failed" => (exit_code # None /\ exit_code # Some(0))
          /\ exit_code = Some(0) => pc = "Done")
    /\ (pc = "Start") ~> (pc \in { "Done", "Failed" })

\* the process ended after the upload, with exit code 0
C7_Witness ==
    /\ pc = "Done"
    /\ exit_code = Some(0)
    /\ ObjectsOfThisRun # {}

\* the number a digit character stands for
DigitValue(ch) == CHOOSE d \in 0..9 : Digits[d + 1] = ch
Number(q) ==
    LET F[i \in 0..Len(q)] == IF i = 0 THEN 0 ELSE 10 * F[i - 1] + DigitValue(q[i])
    IN  F[Len(q)]

\* st reads YYYYMMDD_HHMM and names the local minute of clock value t
IsStampOf(st, t) ==
    /\ Len(st) = 13
    /\ st[9] = "_"
    /\ \A i \in (1..13) \ { 9 } : st[i] \in Range(Digits)
    /\ Number(SubSeq(st, 1, 4)) = 2024
    /\ Number(SubSeq(st, 5, 6)) = 1
    /\ Number(SubSeq(st, 7, 8)) = (t \div 86400) + 1
    /\ Number(SubSeq(st, 10, 11)) = (t \div 3600) % 24
    /\ Number(SubSeq(st, 12, 13)) = (t \div 60) % 60

\* name is "<prefix>-<stamp>.jpg", or "<stamp>.jpg" for an empty prefix
IsFilenameOf(name, prefix, t) ==
    LET lead == IF prefix = << >> THEN << >> ELSE prefix \o << "-" >>
        n == Len(lead)
    IN  /\ Len(name) = n + 17
        /\ SubSeq(name, 1, n) = lead
        /\ IsStampOf(SubSeq(name, n + 1, n + 13), t)
        /\ SubSeq(name, n + 14, n + 17) = << ".", "j", "p", "g" >>

SameMinute(t, u) == t \div 60 = u \div 60

\* the path get_output_path built ends with the file name, which follows
\* the output directory when the prefix holds no separator
C9_BuildOk(b) ==
    \E n \in 0..Len(b.path) :
        LET name == SubSeq(b.path, n + 1, Len(b.path))
            dir == SubSeq(b.path, 1, n)
        IN  /\ IsFilenameOf(name, b.output_prefix, b.time)
            /\ Sep \notin Range(b.output_prefix) =>
                  \/ dir = b.output_dir /\ (dir = << >> \/ Last(dir) = Sep)
                  \/ dir = b.output_dir \o << Sep >> /\ b.output_dir # << >>
                         /\ Last(b.output_dir) # Sep

\* C9: two get_output_path calls with the same output directory and prefix
\* return the same path exactly when their clock readings lie in the same
\* minute; the file name is "<prefix>-<YYYYMMDD_HHMM>.jpg", or
\* "<YYYYMMDD_HHMM>.jpg" for an empty prefix; and saving to a path that
\* already exists can succeed and then replaces the file's content, so the
\* invocations of one minute leave one file.
C9_PathPerMinute ==
    /\ \A i, j \in DOMAIN builds :
          (/\ builds[i].output_dir = builds[j].output_dir
           /\ builds[i].output_prefix = builds[j].output_prefix) =>
              (SameMinute(builds[i].time, builds[j].time)
                   <=> builds[i].path = builds[j].path)
    /\ \A i \in DOMAIN builds : C9_BuildOk(builds[i])
    /\ (pc = "DirReady" /\ Get(output_path) \in DOMAIN fs) =>
           ENABLED (save_with_format /\ pc' = "Persisted")
    /\ Returned("save_with_format") => fs[Get(output_path)] = Jpeg(Get(image))
    /\ Cardinality(DOMAIN fs) <= Cardinality({ builds[i].time \div 60 : i \in DOMAIN builds })

\* a second invocation built, at another second of the same minute, the
\* path of the first one and saved its own image over the first one's file
C9_Witness ==
    /\ runs = 2
    /\ Len(builds) = 2
    /\ builds[1].time # builds[2].time
    /\ builds[1].path = builds[2].path
    /\ builds[1].output_prefix # << >>
    /\ \E k \in DOMAIN remote : remote[k].body.pixels.frame = 1
    /\ Returned("save_with_format")
    /\ DOMAIN fs = { Get(output_path) }
    /\ fs[Get(output_path)].pixels.frame = 2

\* C8: once put_object has returned, the bucket holds, under the key made of
\* r2_project_prefix, "pictures/" and the last component of the output path,
\* the content of the saved file as it was read back, with content type
\* image/jpeg; it is the only object of this invocation, and any other
\* output_dir would have given the same key.
C8_ObjectKeyAndBody ==
    Returned("put_object") =>
        \E n \in 0..Len(Get(output_path)) :
            LET path == Get(output_path)
                name == SubSeq(path, n + 1, Len(path))
                key == Get(config).r2_project_prefix
                           \o << "p", "i", "c", "t", "u", "r", "e", "s", "/" >> \o name
            IN  /\ Sep \notin Range(name)
                /\ n = 0 \/ path[n] = Sep
                /\ key \in DOMAIN remote
                /\ ObjectsOfThisRun = { key }
                /\ remote[key].content_type = "image/jpeg"
                /\ remote[key].body = Get(image_file_buffer)
                /\ remote[key].body = fs[path]
                /\ \A d \in PathDirs :
                      ObjectKey(Get(config),
                                OutputPath([Get(config) EXCEPT !.output_dir = d],
                                           Last(builds).time)) = key

\* an upload from a nested output directory with a prefix that itself
\* holds a separator
C8_Witness ==
    /\ Returned("put_object")
    /\ Get(config).output_dir = << "a", "/", "b" >>
    /\ Get(config).output_prefix = << "a", "/", "c" >>
    /\ Get(config).r2_project_prefix # << >>
    /\ ObjectsOfThisRun # {}

====
